---------------------------- MODULE Spec2Model ----------------------------
(***************************************************************************)
(* MineBotRL: the three gym environment adapters (EnhancedMinecraftEnv,    *)
(* MinecraftEnv, MinecraftJSEnv), the task manager, main.py's process      *)
(* lifecycle and log-forwarding thread, and connect() of MinecraftJSEnv    *)
(* and MiningBot.                                                          *)
(*                                                                         *)
(* Conventions.                                                            *)
(*  - A Python sequence index k is the TLA+ index k+1.                     *)
(*  - Rewards are integers in units of 0.01.                               *)
(*  - Entries of the MinecraftJSEnv / TaskEnvironment observations are     *)
(*    integers in units of 1/6400 (6400 is the least common multiple of    *)
(*    the divisors 20, 200, 256 and 64 that the code uses); entry 14 of    *)
(*    the EnhancedMinecraftEnv observation is in units of 1/24000.         *)
(*  - A dict is a function whose DOMAIN is the set of keys that are        *)
(*    present; d.get(k, 0) is Get(d, k).                                   *)
(*  - The bridge reports integer coordinates that differ along the x axis  *)
(*    only, so the Euclidean norm of a position difference is an integer.  *)
(***************************************************************************)
EXTENDS Integers, Sequences, FiniteSets, TLC

VARIABLES
    env,        \* the fields of the environment object that was constructed
    pc,         \* "idle": between calls; "returned": a call has just returned
    ret,        \* what the last reset()/step() call returned
    trace,      \* the HTTP traffic of the last call: requests sent, poll results
    lastGood,   \* observation derived from the last successful /status poll
    main,       \* main.py: position of main(), arguments, the global nodejs_process
    node,       \* the Node.js subprocess, its two pipes and the log thread
    tm,         \* the task manager and the agent loop (its base environment is env)
    conn        \* one call of connect(): the object's class, position, polls made

vars == <<env, pc, ret, trace, lastGood, main, node, tm, conn>>

envVars == <<env, pc, ret, trace, lastGood>>

-----------------------------------------------------------------------------
(* Bounds of the model *)

MaxCoord == 1

MaxCount == 1

MaxSteps == 3

MaxLines == 4

PipeCap == 2

-----------------------------------------------------------------------------
(* Generic helpers *)

Get(d, k) ==
    IF k \in DOMAIN d THEN d[k] ELSE 0

Min(a, b) ==
    IF a < b THEN a ELSE b

Max(a, b) ==
    IF a > b THEN a ELSE b

Abs(a) ==
    IF a < 0 THEN -a ELSE a

Zeros(n) ==
    [i \in 1..n |-> 0]

EmptyDict ==
    [k \in {} |-> 0]

Dict1(k, v) ==
    [x \in {k} |-> v]

Dict2(k1, v1, k2, v2) ==
    [x \in {k1, k2} |-> IF x = k1 THEN v1 ELSE v2]

\* floor of the square root
RECURSIVE ISqrtFrom(_, _)
ISqrtFrom(n, r) ==
    IF (r + 1) * (r + 1) > n THEN r ELSE ISqrtFrom(n, r + 1)

ISqrt(n) ==
    ISqrtFrom(n, 0)

\* np.linalg.norm(p - q) for two position triples
Norm(p, q) ==
    ISqrt((p[1] - q[1]) * (p[1] - q[1]) + (p[2] - q[2]) * (p[2] - q[2])
          + (p[3] - q[3]) * (p[3] - q[3]))

-----------------------------------------------------------------------------
(* The bridge server: HTTP outcomes *)

\* a request that raised (connection error, timeout, HTTP error status)
Fail ==
    [ok |-> FALSE]

Pos(x, y, z) ==
    [x |-> x, y |-> y, z |-> z]

\* the JSON object GET /status answers with
Status(p, h, f, inv, mining, collecting, collected) ==
    [ok |-> TRUE, position |-> p, health |-> h, hunger |-> f, inventory |-> inv,
     blocks |-> [front |-> "oak_log", below |-> "grass_block", above |-> "air"],
     biome |-> "forest", timeOfDay |-> 6000, threatLevel |-> 0,
     isMining |-> mining, isCollecting |-> collecting, itemsCollected |-> collected,
     connected |-> TRUE]

Coords ==
    0..MaxCoord

Positions ==
    {Pos(x, 0, 0) : x \in Coords}

Req(method, endpoint, body) ==
    [method |-> method, endpoint |-> endpoint, body |-> body]

NoBody ==
    [k \in {} |-> ""]

MoveBody(d) ==
    [direction |-> d, distance |-> 1]

NoRet ==
    [op |-> "none"]

NoTrace ==
    [action |-> -1, reqs |-> << >>, polls |-> << >>]

-----------------------------------------------------------------------------
(* environment.py: EnhancedMinecraftEnv *)

max_episode_steps ==
    MaxSteps

item_values ==
    << <<"oak_log", 100>>, <<"oak_planks", 50>>, <<"stick", 30>>,
       <<"crafting_table", 200>>, <<"wooden_pickaxe", 300>>, <<"stone", 50>>,
       <<"cobblestone", 70>>, <<"stone_pickaxe", 500>>, <<"iron_ore", 700>>,
       <<"iron_ingot", 1000>>, <<"cooked_beef", 200>>, <<"apple", 150>> >>

CraftedItems ==
    {"wooden_pickaxe", "stone_pickaxe", "crafting_table", "stick", "oak_planks"}

_encode_block_type(b) ==
    CASE b = "air" -> 0 [] b = "dirt" -> 1 [] b = "grass_block" -> 2
      [] b = "stone" -> 3 [] b = "oak_log" -> 4 [] b = "oak_leaves" -> 5
      [] b = "crafting_table" -> 6 [] b = "coal_ore" -> 7 [] b = "iron_ore" -> 8
      [] b = "water" -> 9 [] b = "lava" -> 10 [] OTHER -> 0

_encode_biome(b) ==
    CASE b = "plains" -> 0 [] b = "forest" -> 1 [] b = "desert" -> 2
      [] b = "mountains" -> 3 [] b = "swamp" -> 4 [] b = "ocean" -> 5
      [] b = "river" -> 6 [] b = "beach" -> 7 [] b = "jungle" -> 8
      [] b = "taiga" -> 9 [] OTHER -> 0

\* the inventories the bridge reports to EnhancedMinecraftEnv
EnhInventories ==
    {EmptyDict,
     Dict1("stick", MaxCount),
     Dict1("wooden_pickaxe", 0),
     Dict2("wooden_pickaxe", MaxCount, "stone_pickaxe", MaxCount),
     Dict2("stick", MaxCount, "apple", MaxCount)}

\* the bot alive somewhere, or with some inventory, or dead at the origin
EnhStatuses ==
    {Status(p, 20, 20, EmptyDict, FALSE, FALSE, 0) : p \in Positions}
    \cup {Status(Pos(0, 0, 0), 20, 20, inv, FALSE, FALSE, 0) : inv \in EnhInventories}
    \cup {Status(Pos(0, 0, 0), 0, 20, EmptyDict, FALSE, FALSE, 0)}

\* _get_inventory reads the inventory field only
EnhInventoryPolls ==
    {s \in EnhStatuses : s.position = Pos(0, 0, 0) /\ s.health = 20}

\* the vector built from a /status response
EnhObsOf(data) ==
    << data.position.x, data.position.y, data.position.z,
       data.health, data.hunger,
       Get(data.inventory, "oak_log"),
       Get(data.inventory, "cobblestone"),
       Get(data.inventory, "crafting_table"),
       Get(data.inventory, "wooden_pickaxe") + Get(data.inventory, "stone_pickaxe"),
       Get(data.inventory, "cooked_beef") + Get(data.inventory, "apple"),
       _encode_block_type(data.blocks.front),
       _encode_block_type(data.blocks.below),
       _encode_block_type(data.blocks.above),
       _encode_biome(data.biome),
       data.timeOfDay,
       data.threatLevel >>

\* a failed poll answered with a fresh default instead of the cached vector
Enh_get_observation_fresh(e, poll) ==
    IF poll.ok THEN EnhObsOf(poll) ELSE Zeros(16)

Enh_get_observation(e, poll) ==
    IF poll.ok THEN EnhObsOf(poll) ELSE e.prev_obs

Enh_get_inventory(e, poll) ==
    IF poll.ok THEN poll.inventory ELSE e.last_inventory

\* the loop body without its "if curr_count > prev_count"
ItemGainSigned(prev, curr, entry) ==
    (Get(curr, entry[1]) - Get(prev, entry[1])) * entry[2]

\* one pass of the loop over item_values
ItemGain(prev, curr, entry) ==
    IF Get(curr, entry[1]) > Get(prev, entry[1])
    THEN (Get(curr, entry[1]) - Get(prev, entry[1])) * entry[2]
    ELSE 0

RECURSIVE ItemReward(_, _, _, _)
ItemReward(prev, curr, values, n) ==
    IF n = 0 THEN 0
    ELSE ItemReward(prev, curr, values, n - 1) + ItemGain(prev, curr, values[n])

\* prev_count as the loop over item_values leaves it: that of its last item
LeakedPrevCount(prev) ==
    Get(prev, item_values[Len(item_values)][1])

CraftBonus(prev, curr, action) ==
    IF action = 7 /\ \E item \in DOMAIN curr :
                        item \in CraftedItems /\ curr[item] > LeakedPrevCount(prev)
    THEN 200 ELSE 0

\* position_delta is np.linalg.norm(obs[0:3] - self.last_position)
ExploreReward(position_delta, action) ==
    IF action \in 0..3 /\ 2 * position_delta > 1 THEN 5 * position_delta ELSE 0

StuckPenalty(position_delta, action) ==
    IF action \in 0..3 /\ 10 * position_delta < 1 THEN -10 ELSE 0

WoodMilestone(prev, curr) ==
    IF "wooden_pickaxe" \in DOMAIN curr /\ Get(prev, "wooden_pickaxe") = 0
    THEN 500 ELSE 0

StoneMilestone(prev, curr) ==
    IF "stone_pickaxe" \in DOMAIN curr /\ Get(prev, "stone_pickaxe") = 0
    THEN 1000 ELSE 0

\* the components of _calculate_reward
Enh_reward_parts(e, obs, current_inventory, action) ==
    [items |-> ItemReward(e.last_inventory, current_inventory, item_values,
                          Len(item_values)),
     craft |-> CraftBonus(e.last_inventory, current_inventory, action),
     explore |-> ExploreReward(Norm(SubSeq(obs, 1, 3), e.last_position), action),
     stuck |-> StuckPenalty(Norm(SubSeq(obs, 1, 3), e.last_position), action),
     health |-> IF obs[4] > e.prev_obs[4] THEN 50 ELSE 0,
     food |-> IF obs[5] > e.prev_obs[5] THEN 30 ELSE 0,
     wood |-> WoodMilestone(e.last_inventory, current_inventory),
     stone |-> StoneMilestone(e.last_inventory, current_inventory)]

Enh_calculate_reward(parts) ==
    parts.items + parts.craft + parts.explore + parts.stuck + parts.health
    + parts.food + parts.wood + parts.stone

directions ==
    <<"forward", "backward", "left", "right">>

\* a direction table with two entries exchanged
EnhDirectionSwapped(action) ==
    <<"forward", "backward", "right", "left">>[action + 1]

\* directions[action]
EnhDirection(action) ==
    directions[action + 1]

\* the request step(action) posts
EnhActionRequest(action) ==
    CASE action \in 0..3 -> Req("POST", "/move", MoveBody(EnhDirection(action)))
      [] action = 4 -> Req("POST", "/jump", NoBody)
      [] action = 5 -> Req("POST", "/mine", NoBody)
      [] action = 6 -> Req("POST", "/place", NoBody)
      [] action = 7 -> Req("POST", "/craft", NoBody)
      [] action = 8 -> Req("POST", "/collect", NoBody)
      [] action = 9 -> Req("POST", "/eat", NoBody)

StatusReq ==
    Req("GET", "/status", NoBody)

\* no milestone bonus awarded yet in this episode
NoAwards ==
    [wood |-> 0, stone |-> 0]

\* the milestone bonuses awarded in the episode so far, counted up to 2
Awarded(awards, parts) ==
    [wood |-> Min(2, awards.wood + (IF parts.wood > 0 THEN 1 ELSE 0)),
     stone |-> Min(2, awards.stone + (IF parts.stone > 0 THEN 1 ELSE 0))]

\* awards is history: the code keeps no such field
EnhInit ==
    [cls |-> "Enhanced", step_count |-> 0, last_inventory |-> EmptyDict,
     prev_obs |-> Zeros(16), last_position |-> Zeros(3), awards |-> NoAwards]

\* reset() when POST /reset raised
EnhResetFailed ==
    /\ env.cls = "Enhanced" /\ pc = "idle"
    /\ ret' = [op |-> "reset", ok |-> FALSE, obs |-> env.prev_obs]
    /\ trace' = [action |-> -1, reqs |-> <<Req("POST", "/reset", NoBody)>>,
                 polls |-> << >>]
    /\ pc' = "returned"
    /\ env' = [env EXCEPT !.awards = NoAwards]
    /\ UNCHANGED lastGood
    /\ UNCHANGED <<main, node, tm, conn>>

\* reset() when POST /reset went through
EnhReset ==
    /\ env.cls = "Enhanced" /\ pc = "idle"
    /\ \E p1 \in EnhStatuses \cup {Fail}, p2 \in EnhInventoryPolls \cup {Fail} :
         LET obs == Enh_get_observation(env, p1)
             e1 == [env EXCEPT !.prev_obs = obs, !.last_position = SubSeq(obs, 1, 3)]
         IN /\ env' = [e1 EXCEPT !.last_inventory = Enh_get_inventory(e1, p2),
                                 !.step_count = 0, !.awards = NoAwards]
            /\ ret' = [op |-> "reset", ok |-> TRUE, obs |-> obs]
            /\ trace' = [action |-> -1,
                         reqs |-> <<Req("POST", "/reset", NoBody), StatusReq, StatusReq>>,
                         polls |-> <<p1, p2>>]
            /\ lastGood' = IF p1.ok THEN EnhObsOf(p1) ELSE lastGood
    /\ pc' = "returned"
    /\ UNCHANGED <<main, node, tm, conn>>

\* step(action) when the action's POST raised
EnhStepFailed ==
    /\ env.cls = "Enhanced" /\ pc = "idle" /\ env.step_count <= MaxSteps
    /\ \E action \in 0..9 :
         /\ env' = [env EXCEPT !.step_count = @ + 1]
         /\ ret' = [op |-> "step", ok |-> FALSE, obs |-> env.prev_obs, reward |-> -10,
                    terminated |-> FALSE, truncated |-> FALSE]
         /\ trace' = [action |-> action, reqs |-> <<EnhActionRequest(action)>>,
                      polls |-> << >>]
    /\ pc' = "returned"
    /\ UNCHANGED lastGood
    /\ UNCHANGED <<main, node, tm, conn>>

\* step(action) when the action's POST went through
EnhStep ==
    /\ env.cls = "Enhanced" /\ pc = "idle" /\ env.step_count <= MaxSteps
    /\ \E action \in 0..9, p1 \in EnhStatuses \cup {Fail},
          p2 \in EnhInventoryPolls \cup {Fail} :
       \E e0 \in {[env EXCEPT !.step_count = @ + 1]} :
       \E obs \in {Enh_get_observation(e0, p1)},
          current_inventory \in {Enh_get_inventory(e0, p2)} :
       \E parts \in {Enh_reward_parts(e0, obs, current_inventory, action)},
          terminated \in {obs[4] <= 0} :
       \E reward \in {Enh_calculate_reward(parts) - (IF terminated THEN 1000 ELSE 0)} :
            /\ env' = [e0 EXCEPT !.prev_obs = obs,
                                 !.last_inventory = current_inventory,
                                 !.last_position = SubSeq(obs, 1, 3),
                                 !.awards = Awarded(@, parts)]
            /\ ret' = [op |-> "step", ok |-> TRUE, obs |-> obs, reward |-> reward,
                       parts |-> parts, terminated |-> terminated,
                       truncated |-> (e0.step_count >= max_episode_steps)]
            /\ trace' = [action |-> action,
                         reqs |-> <<EnhActionRequest(action), StatusReq, StatusReq>>,
                         polls |-> <<p1, p2>>, was |-> env]
            /\ lastGood' = IF p1.ok THEN EnhObsOf(p1) ELSE lastGood
    /\ pc' = "returned"
    /\ UNCHANGED <<main, node, tm, conn>>

-----------------------------------------------------------------------------
(* minecraft_env.py: MinecraftEnv *)

valuable_items ==
    << <<"diamond", 1000>>, <<"iron_ingot", 500>>, <<"gold_ingot", 400>>,
       <<"coal", 200>>, <<"oak_log", 100>>, <<"stone", 50>>, <<"dirt", 10>> >>

\* step() ends the episode at this step count (500 in the code)
McMaxSteps ==
    MaxSteps

None ==
    [none |-> TRUE]

McInventories ==
    {EmptyDict, Dict1("oak_log", 1), Dict2("oak_log", 1, "dirt", MaxCount)}

\* the bot alive somewhere, or with some inventory, or busy, or dead
McStatuses ==
    {Status(p, 20, 20, EmptyDict, FALSE, FALSE, 0) : p \in Positions}
    \cup {Status(Pos(0, 0, 0), 20, 20, inv, FALSE, FALSE, 0) : inv \in McInventories}
    \cup {Status(Pos(0, 0, 0), 20, 20, EmptyDict, TRUE, FALSE, 0),
          Status(Pos(0, 0, 0), 20, 20, EmptyDict, FALSE, TRUE, 0),
          Status(Pos(0, 0, 0), 20, 20, EmptyDict, FALSE, FALSE, 1),
          Status(Pos(0, 0, 0), 0, 20, EmptyDict, FALSE, FALSE, 0)}

\* _get_inventory reads the inventory field only
McInventoryPolls ==
    {s \in McStatuses : s.position = Pos(0, 0, 0) /\ s.health = 20
                        /\ ~s.isMining /\ ~s.isCollecting /\ s.itemsCollected = 0}

BoolInt(b) ==
    IF b THEN 1 ELSE 0

\* the vector built from a /status response
McObsOf(status) ==
    << status.position.x, status.position.y, status.position.z,
       status.health, status.hunger,
       Get(status.inventory, "diamond"),
       Get(status.inventory, "iron_ingot"),
       Get(status.inventory, "gold_ingot"),
       Get(status.inventory, "coal"),
       Get(status.inventory, "oak_log"),
       Get(status.inventory, "stone"),
       Get(status.inventory, "dirt"),
       BoolInt(status.isMining),
       BoolInt(status.isCollecting),
       status.itemsCollected >>

\* a failed poll answered with a zero position only
Mc_get_obs_short(poll) ==
    IF poll.ok THEN McObsOf(poll) ELSE Zeros(3)

Mc_get_obs(poll) ==
    IF poll.ok THEN McObsOf(poll) ELSE Zeros(15)

Mc_get_inventory(poll) ==
    IF poll.ok THEN poll.inventory ELSE EmptyDict

McMoveOf(pos_diff, last_action) ==
    IF 1 < 2 * pos_diff /\ pos_diff < 10 THEN 5 * pos_diff
    ELSE IF 10 * pos_diff < 1 /\ last_action \in 0..3 THEN -10
    ELSE 0

McMoveReward(e, current_obs, last_action) ==
    IF e.previous_position = None THEN 0
    ELSE McMoveOf(Norm(SubSeq(current_obs, 1, 3), e.previous_position), last_action)

McItemReward(e, current_inventory) ==
    IF e.previous_inventory # EmptyDict
    THEN ItemReward(e.previous_inventory, current_inventory, valuable_items,
                    Len(valuable_items))
    ELSE 0

\* the components of _calculate_reward; current_obs[13], current_obs[14] in Python
Mc_reward_parts(e, current_obs, current_inventory, last_action) ==
    [move |-> McMoveReward(e, current_obs, last_action),
     items |-> McItemReward(e, current_inventory),
     mining |-> IF current_obs[14] > 0 THEN 20 ELSE 0,
     collecting |-> IF current_obs[15] > 0 THEN 30 ELSE 0,
     idle |-> IF e.last_reward = 0 THEN -1 ELSE 0]

Mc_calculate_reward(parts) ==
    parts.move + parts.items + parts.mining + parts.collecting + parts.idle

\* the requests step(action) posts
McActionRequests(action) ==
    CASE action = 0 -> <<Req("POST", "/move", MoveBody("forward"))>>
      [] action = 1 -> <<Req("POST", "/move", MoveBody("backward"))>>
      [] action = 2 -> <<Req("POST", "/move", MoveBody("left"))>>
      [] action = 3 -> <<Req("POST", "/move", MoveBody("right"))>>
      [] action = 4 -> <<Req("POST", "/jump", NoBody)>>
      [] action = 5 -> <<Req("POST", "/mine", NoBody)>>
      [] action = 6 -> <<Req("POST", "/attack", NoBody)>>
      [] action = 7 -> <<Req("POST", "/collect", NoBody)>>
      [] OTHER -> << >>

ConnectBody ==
    [host |-> "localhost", port |-> "25565", username |-> "TeriMakiKamKar",
     version |-> "1.21.1"]

\* self.last_action is written at the top of step() and read by that call's
\* _calculate_reward only (and by render()): it is the action of the call
McInit ==
    [cls |-> "Mc", previous_position |-> None, previous_inventory |-> EmptyDict,
     step_count |-> 0, last_reward |-> 0]

\* reset(); an exception of POST /connect is caught and changes nothing
McReset ==
    /\ env.cls = "Mc" /\ pc = "idle"
    /\ \E p1 \in McStatuses \cup {Fail}, p2 \in McInventoryPolls \cup {Fail} :
         LET obs == Mc_get_obs(p1)
         IN /\ env' = [env EXCEPT !.step_count = 0, !.last_reward = 0,
                                  !.previous_position = SubSeq(obs, 1, 3),
                                  !.previous_inventory = Mc_get_inventory(p2)]
            /\ ret' = [op |-> "reset", ok |-> TRUE, obs |-> obs]
            /\ trace' = [action |-> -1,
                         reqs |-> <<Req("POST", "/connect", ConnectBody), StatusReq,
                                    StatusReq>>,
                         polls |-> <<p1, p2>>]
            /\ lastGood' = IF p1.ok THEN McObsOf(p1) ELSE lastGood
    /\ pc' = "returned"
    /\ UNCHANGED <<main, node, tm, conn>>

\* step(action); an exception of the action's POST is caught and changes nothing
McStep ==
    /\ env.cls = "Mc" /\ pc = "idle" /\ env.step_count < McMaxSteps
    /\ \E action \in 0..8, p1 \in McStatuses \cup {Fail},
          p2 \in McInventoryPolls \cup {Fail} :
       \E e0 \in {[env EXCEPT !.step_count = @ + 1]},
          current_obs \in {Mc_get_obs(p1)} :
       \E parts \in {Mc_reward_parts(e0, current_obs, Mc_get_inventory(p2), action)} :
       \E reward \in {Mc_calculate_reward(parts)}, p3 \in McInventoryPolls \cup {Fail} :
            /\ env' = [e0 EXCEPT !.last_reward = reward,
                                 !.previous_position = SubSeq(current_obs, 1, 3),
                                 !.previous_inventory = Mc_get_inventory(p3)]
            /\ ret' = [op |-> "step", ok |-> TRUE, obs |-> current_obs,
                       reward |-> reward, parts |-> parts,
                       done |-> (current_obs[4] <= 0 \/ e0.step_count >= McMaxSteps)]
            /\ trace' = [action |-> action,
                         reqs |-> McActionRequests(action)
                                  \o <<StatusReq, StatusReq, StatusReq>>,
                         polls |-> <<p1, p2, p3>>]
            /\ lastGood' = IF p1.ok THEN McObsOf(p1) ELSE lastGood
    /\ pc' = "returned"
    /\ UNCHANGED <<main, node, tm, conn>>

-----------------------------------------------------------------------------
(* minecraft_env_js.py: MinecraftJSEnv *)

\* step() ends the episode at this step count (10000 in the code)
max_steps ==
    MaxSteps

minecraft_username ==
    "RLBot"

JsInventories ==
    {EmptyDict}
    \cup {Dict1("oak_log", c) : c \in 1..MaxCount}
    \cup {Dict1("wooden_pickaxe", c) : c \in 0..MaxCount}

\* the world is larger than the 100 blocks _get_observation assumes
JsPositions ==
    Positions \cup {Pos(-(100 + MaxCoord), 0, 0)}

\* the bot alive somewhere, or with some inventory, or hurt, or dead
JsStatuses ==
    {Status(p, 20, 20, EmptyDict, FALSE, FALSE, 0) : p \in JsPositions}
    \cup {Status(Pos(0, 0, 0), 20, 20, inv, FALSE, FALSE, 0) : inv \in JsInventories}
    \cup {Status(Pos(0, 0, 0), 10, 10, EmptyDict, FALSE, FALSE, 0),
          Status(Pos(0, 0, 0), 0, 20, EmptyDict, FALSE, FALSE, 0)}

\* an HTTP response that did not raise
Resp(code, result) ==
    [ok |-> TRUE, code |-> code, result |-> result]

Result(status, block) ==
    [status |-> status, block |-> block]

\* what the bridge answers to the POST of an action
JsResponses(action) ==
    {Fail, Resp(500, Result("", ""))}
    \cup (CASE action = 5 -> {Resp(200, Result("attacked", "")),
                              Resp(200, Result("missed", ""))}
            [] action = 6 -> {Resp(200, Result("mined", b)) :
                                 b \in {"oak_log", "cobblestone", "dirt"}}
                             \cup {Resp(200, Result("failed", ""))}
            [] action \in {7, 8} -> {Resp(200, Result("placed", "")),
                                     Resp(200, Result("failed", ""))}
            [] OTHER -> {Resp(200, Result("ok", ""))})

\* 'log' in block_type
HasLog(block_type) ==
    block_type \in {"oak_log", "birch_log"}

\* 'stone' in block_type or 'ore' in block_type
HasStoneOrOre(block_type) ==
    block_type \in {"stone", "cobblestone", "iron_ore", "coal_ore"}

PlaceBody(item) ==
    [itemName |-> item]

CommandBody(c) ==
    [command |-> c]

\* the request _execute_action posts first
JsActionRequest(action) ==
    CASE action = 0 -> Req("POST", "/move", MoveBody("forward"))
      [] action = 1 -> Req("POST", "/move", MoveBody("backward"))
      [] action = 2 -> Req("POST", "/move", MoveBody("left"))
      [] action = 3 -> Req("POST", "/move", MoveBody("right"))
      [] action = 4 -> Req("POST", "/jump", NoBody)
      [] action = 5 -> Req("POST", "/attack", NoBody)
      [] action = 6 -> Req("POST", "/mine", NoBody)
      [] action = 7 -> Req("POST", "/place", PlaceBody("dirt"))
      [] action = 8 -> Req("POST", "/place", PlaceBody("stone"))
      [] action = 9 -> Req("POST", "/command", CommandBody(<<"time set day">>))
      [] action = 10 -> Req("POST", "/command", CommandBody(<<"weather clear">>))

\* result = response.json() if response.status_code == 200 else {}
JsResultStatus(resp) ==
    IF resp.code = 200 THEN resp.result.status ELSE ""

\* the reward of _execute_action
JsActionReward(action, resp) ==
    IF ~resp.ok THEN -10
    ELSE CASE action \in 0..4 -> 5
           [] action = 5 -> IF JsResultStatus(resp) = "attacked" THEN 20 ELSE 5
           [] action = 6 -> IF JsResultStatus(resp) = "mined"
                            THEN IF HasLog(resp.result.block) THEN 200
                                 ELSE IF HasStoneOrOre(resp.result.block) THEN 150
                                 ELSE 100
                            ELSE 20
           [] action \in {7, 8} -> IF JsResultStatus(resp) = "placed" THEN 30 ELSE 5
           [] action \in {9, 10} -> 10

\* every action that did not mine goes looking for a block
JsLooksAnyAction(action, resp) ==
    resp.ok /\ JsResultStatus(resp) # "mined"

\* a mine that did not mine goes looking for a block
JsLooks(action, resp) ==
    action = 6 /\ resp.ok /\ JsResultStatus(resp) # "mined"

\* what GET /blocks can answer: block type -> positions
JsBlocks ==
    {EmptyDict,
     Dict1("dirt", {}),
     Dict1("oak_log", {Pos(MaxCoord, 0, 0)}),
     Dict2("dirt", {Pos(MaxCoord, 0, 0)}, "stone", {Pos(0, 0, 0)})}

BlocksReq ==
    [method |-> "GET", endpoint |-> "/blocks", body |-> [radius |-> 5]]

TeleportReq(block_pos) ==
    Req("POST", "/command",
        CommandBody(<<"tp", minecraft_username, block_pos.x, block_pos.y, block_pos.z>>))

\* the block types _look_for_minable_block chooses among
PreferredBlocks(blocks) ==
    LET preferred == {t \in DOMAIN blocks : HasLog(t) \/ HasStoneOrOre(t)}
    IN IF preferred = {} THEN DOMAIN blocks ELSE preferred

\* the outcomes of _look_for_minable_block: the requests it sent and the
\* position move_to_block left in self.position
Js_look_for_minable_block(e) ==
    {[reqs |-> <<BlocksReq>>, position |-> e.position]}
    \cup UNION {UNION {UNION {
            {[reqs |-> <<BlocksReq, TeleportReq(block_pos)>>, position |-> block_pos],
             [reqs |-> <<BlocksReq, TeleportReq(block_pos)>>, position |-> e.position]}
            : block_pos \in blocks[block_type]}
            : block_type \in PreferredBlocks(blocks)}
            : blocks \in JsBlocks}

\* the outcomes of _execute_action
Js_execute_action(e, action, resp) ==
    IF JsLooks(action, resp)
    THEN {[reward |-> JsActionReward(action, resp),
           reqs |-> <<JsActionRequest(action)>> \o look.reqs,
           position |-> look.position] : look \in Js_look_for_minable_block(e)}
    ELSE {[reward |-> JsActionReward(action, resp),
           reqs |-> <<JsActionRequest(action)>>,
           position |-> e.position]}

\* update_state forgetting the position
Js_update_state_no_position(e, status) ==
    IF status.ok
    THEN [e EXCEPT !.health = status.health, !.hunger = status.hunger,
                   !.inventory = status.inventory]
    ELSE e

Js_update_state(e, status) ==
    IF status.ok
    THEN [e EXCEPT !.health = status.health, !.hunger = status.hunger,
                   !.position = status.position, !.inventory = status.inventory]
    ELSE e

Flag(b) ==
    IF b THEN 6400 ELSE 0

\* _get_observation, from the fields the object holds
Js_get_observation(e) ==
    << e.health * 320,
       e.hunger * 320,
       (e.position.x + 100) * 32,
       e.position.y * 25,
       (e.position.z + 100) * 32,
       Min(Get(e.inventory, "oak_log") * 100, 6400),
       Min(Get(e.inventory, "cobblestone") * 100, 6400),
       Min(Get(e.inventory, "iron_ore") * 100, 6400),
       Min(Get(e.inventory, "cooked_beef") * 100, 6400),
       Flag(Get(e.inventory, "wooden_pickaxe") > 0),
       Flag(Get(e.inventory, "stone_pickaxe") > 0),
       Flag(Get(e.inventory, "iron_pickaxe") > 0),
       Flag(Get(e.inventory, "wooden_sword") > 0),
       Flag(Get(e.inventory, "stone_sword") > 0),
       Flag(Get(e.inventory, "iron_sword") > 0),
       0, 0, 0, 0, 0 >>

JsInit ==
    [cls |-> "Js", current_step |-> 0, health |-> 20, hunger |-> 20,
     inventory |-> EmptyDict, position |-> Pos(0, 0, 0), time_of_day |-> 0]

\* the observation a successful poll alone determines
JsObsOf(status) ==
    Js_get_observation(Js_update_state(JsInit, status))

JsReset ==
    /\ env.cls = "Js" /\ pc = "idle"
    /\ \E poll \in JsStatuses \cup {Fail} :
       \E e1 \in {Js_update_state([env EXCEPT !.current_step = 0, !.health = 20,
                                              !.hunger = 20], poll)} :
         /\ env' = e1
         /\ ret' = [op |-> "reset", ok |-> TRUE, obs |-> Js_get_observation(e1)]
         /\ trace' = [action |-> -1, reqs |-> <<StatusReq>>, polls |-> <<poll>>]
         /\ lastGood' = IF poll.ok THEN JsObsOf(poll) ELSE lastGood
    /\ pc' = "returned"
    /\ UNCHANGED <<main, node, tm, conn>>

JsStep ==
    /\ env.cls = "Js" /\ pc = "idle" /\ env.current_step < max_steps
    /\ \E action \in 0..10 :
       \E resp \in JsResponses(action) :
       \E e0 \in {[env EXCEPT !.current_step = @ + 1]} :
       \E done \in Js_execute_action(e0, action, resp), poll \in JsStatuses \cup {Fail} :
       \E e1 \in {Js_update_state([e0 EXCEPT !.position = done.position], poll)} :
         /\ env' = e1
         /\ ret' = [op |-> "step", ok |-> TRUE, obs |-> Js_get_observation(e1),
                    reward |-> done.reward,
                    done |-> (e1.current_step >= max_steps \/ e1.health <= 0)]
         /\ trace' = [action |-> action, reqs |-> done.reqs \o <<StatusReq>>,
                      polls |-> <<poll>>]
         /\ lastGood' = IF poll.ok THEN JsObsOf(poll) ELSE lastGood
    /\ pc' = "returned"
    /\ UNCHANGED <<main, node, tm, conn>>

-----------------------------------------------------------------------------
(* the caller takes the result of the call *)

Consume ==
    /\ pc = "returned"
    /\ pc' = "idle"
    /\ ret' = NoRet
    /\ trace' = NoTrace
    /\ UNCHANGED <<env, lastGood>>
    /\ UNCHANGED <<main, node, tm, conn>>

EnvInit ==
    /\ env \in {EnhInit, McInit, JsInit}
    /\ pc = "idle"
    /\ ret = NoRet
    /\ trace = NoTrace
    /\ lastGood = (CASE env.cls = "Enhanced" -> env.prev_obs
                     [] env.cls = "Mc" -> Zeros(15)
                     [] env.cls = "Js" -> Js_get_observation(env))

EnvNext ==
    \/ EnhResetFailed
    \/ EnhReset
    \/ EnhStepFailed
    \/ EnhStep
    \/ McReset
    \/ McStep
    \/ JsReset
    \/ JsStep
    \/ Consume

-----------------------------------------------------------------------------
(* main.py: main(), signal_handler and the global nodejs_process *)

Modes ==
    {"train", "evaluate", "visualize"}

\* main() before signal.signal(...), for one command line
MainStart(mode, skip_node, model_path) ==
    [pc |-> "start", mode |-> mode, skip_node |-> skip_node,
     model_path |-> model_path, nodejs_process |-> "None", spawned |-> FALSE,
     terminate_calls |-> 0, waited |-> FALSE, exit_code |-> -1]

MainInit ==
    main \in {MainStart(mode, skip_node, model_path) :
                 mode \in Modes, skip_node \in BOOLEAN, model_path \in BOOLEAN}

\* signal.signal(SIGINT, ...); signal.signal(SIGTERM, ...)
RegisterHandlers ==
    /\ main.pc = "start"
    /\ main' = [main EXCEPT !.pc = "setup"]
    /\ UNCHANGED <<envVars, node, tm, conn>>

\* setup_recipes_directory(); create_logs_directory(); entering the try block
SetupDirectories ==
    /\ main.pc = "setup"
    /\ main' = [main EXCEPT !.pc = "try"]
    /\ UNCHANGED <<envVars, node, tm, conn>>

\* if not args.skip_node: ... is skipped
SkipNode ==
    /\ main.pc = "try" /\ main.skip_node
    /\ main' = [main EXCEPT !.pc = "mode"]
    /\ UNCHANGED <<envVars, node, tm, conn>>

\* start_bot_server(): subprocess.Popen(...) has spawned the subprocess
Popen ==
    /\ main.pc = "try" /\ ~main.skip_node
    /\ main' = [main EXCEPT !.pc = "spawned", !.spawned = TRUE]
    /\ UNCHANGED <<envVars, node, tm, conn>>

\* start_bot_server(): the result of Popen is stored in the global
\* nodejs_process and the log thread is started
start_bot_server ==
    /\ main.pc = "spawned"
    /\ main' = [main EXCEPT !.pc = "started", !.nodejs_process = "proc"]
    /\ UNCHANGED <<envVars, node, tm, conn>>

\* subprocess.Popen raised (no node executable): except Exception, return 1
PopenRaised ==
    /\ main.pc = "try" /\ ~main.skip_node
    /\ main' = [main EXCEPT !.pc = "finally", !.exit_code = 1]
    /\ UNCHANGED <<envVars, node, tm, conn>>

\* time.sleep(5); return nodejs_process
ServerInitialized ==
    /\ main.pc = "started"
    /\ main' = [main EXCEPT !.pc = "mode"]
    /\ UNCHANGED <<envVars, node, tm, conn>>

\* evaluate / visualize without --model-path: return 1
MissingModelPath ==
    /\ main.pc = "mode" /\ main.mode \in {"evaluate", "visualize"} /\ ~main.model_path
    /\ main' = [main EXCEPT !.pc = "finally", !.exit_code = 1]
    /\ UNCHANGED <<envVars, node, tm, conn>>

\* the mode ran to its end: return 0
ModeCompleted ==
    /\ main.pc = "mode" /\ (main.mode = "train" \/ main.model_path)
    /\ main' = [main EXCEPT !.pc = "finally", !.exit_code = 0]
    /\ UNCHANGED <<envVars, node, tm, conn>>

\* the mode raised: except Exception, return 1
ModeRaised ==
    /\ main.pc = "mode" /\ (main.mode = "train" \/ main.model_path)
    /\ main' = [main EXCEPT !.pc = "finally", !.exit_code = 1]
    /\ UNCHANGED <<envVars, node, tm, conn>>

\* if nodejs_process and not args.skip_node
CleanupNeeded(m) ==
    m.nodejs_process # "None" /\ ~m.skip_node

\* the finally block, then sys.exit(main())
Finally ==
    /\ main.pc = "finally"
    /\ main' = IF CleanupNeeded(main)
               THEN [main EXCEPT !.pc = "exited", !.terminate_calls = @ + 1,
                                 !.waited = TRUE]
               ELSE [main EXCEPT !.pc = "exited"]
    /\ UNCHANGED <<envVars, node, tm, conn>>

\* signal_handler: terminate the subprocess if there is one, then sys.exit(0)
HandlerBody(m) ==
    [m EXCEPT !.terminate_calls = IF m.nodejs_process # "None" THEN @ + 1 ELSE @,
              !.exit_code = 0]

\* SIGINT / SIGTERM while main() is inside the try block: SystemExit is no
\* Exception, so it passes the except clause and runs the finally block
SignalInTry ==
    /\ main.pc \in {"try", "spawned", "started", "mode"}
    /\ main' = [HandlerBody(main) EXCEPT !.pc = "finally"]
    /\ UNCHANGED <<envVars, node, tm, conn>>

\* SIGINT / SIGTERM before the try block or inside the finally block
SignalOutsideTry ==
    /\ main.pc \in {"setup", "finally"}
    /\ main' = [HandlerBody(main) EXCEPT !.pc = "exited"]
    /\ UNCHANGED <<envVars, node, tm, conn>>

MainNext ==
    \/ RegisterHandlers
    \/ SetupDirectories
    \/ SkipNode
    \/ Popen
    \/ start_bot_server
    \/ PopenRaised
    \/ ServerInitialized
    \/ MissingModelPath
    \/ ModeCompleted
    \/ ModeRaised
    \/ Finally
    \/ SignalInTry
    \/ SignalOutsideTry

-----------------------------------------------------------------------------
(* main.py: the Node.js subprocess, its two pipes and log_output *)

\* after Popen: both pipes empty, the thread iterating nodejs_process.stdout
NodeStart ==
    [proc |-> "running", writing |-> "none", written |-> 0,
     stdout |-> << >>, stderr |-> << >>, thread |-> "stdout", logged |-> << >>]

NodeInit ==
    node = NodeStart

\* the subprocess calls write() on one of its streams
ProcBeginWrite ==
    /\ node.proc = "running" /\ node.writing = "none" /\ node.written < MaxLines
    /\ \E stream \in {"stdout", "stderr"} :
         node' = [node EXCEPT !.writing = stream]
    /\ UNCHANGED <<envVars, main, tm, conn>>

\* the write returns once the pipe has room for the line
ProcCompleteWrite ==
    /\ node.proc = "running"
    /\ \/ /\ node.writing = "stdout" /\ Len(node.stdout) < PipeCap
          /\ node' = [node EXCEPT !.stdout = Append(@, node.written + 1),
                                  !.written = @ + 1, !.writing = "none"]
       \/ /\ node.writing = "stderr" /\ Len(node.stderr) < PipeCap
          /\ node' = [node EXCEPT !.stderr = Append(@, node.written + 1),
                                  !.written = @ + 1, !.writing = "none"]
    /\ UNCHANGED <<envVars, main, tm, conn>>

\* the subprocess ends by itself, closing its ends of both pipes
ProcExit ==
    /\ node.proc = "running" /\ node.writing = "none"
    /\ node' = [node EXCEPT !.proc = "exited"]
    /\ UNCHANGED <<envVars, main, tm, conn>>

\* nodejs_process.terminate(): the subprocess is killed, blocked or not
ProcTerminated ==
    /\ node.proc = "running"
    /\ node' = [node EXCEPT !.proc = "exited", !.writing = "none"]
    /\ UNCHANGED <<envVars, main, tm, conn>>

\* for line in nodejs_process.stdout: logger.info(...)
LogStdoutLine ==
    /\ node.thread = "stdout" /\ node.stdout # << >>
    /\ node' = [node EXCEPT !.stdout = Tail(@),
                            !.logged = Append(@, [level |-> "info",
                                                  line |-> Head(node.stdout)])]
    /\ UNCHANGED <<envVars, main, tm, conn>>

\* end of file on stdout: the first loop ends, the second begins
StdoutClosed ==
    /\ node.thread = "stdout" /\ node.stdout = << >> /\ node.proc = "exited"
    /\ node' = [node EXCEPT !.thread = "stderr"]
    /\ UNCHANGED <<envVars, main, tm, conn>>

\* for line in nodejs_process.stderr: logger.error(...)
LogStderrLine ==
    /\ node.thread = "stderr" /\ node.stderr # << >>
    /\ node' = [node EXCEPT !.stderr = Tail(@),
                            !.logged = Append(@, [level |-> "error",
                                                  line |-> Head(node.stderr)])]
    /\ UNCHANGED <<envVars, main, tm, conn>>

\* end of file on stderr: log_output returns
StderrClosed ==
    /\ node.thread = "stderr" /\ node.stderr = << >> /\ node.proc = "exited"
    /\ node' = [node EXCEPT !.thread = "done"]
    /\ UNCHANGED <<envVars, main, tm, conn>>

log_output ==
    \/ LogStdoutLine
    \/ StdoutClosed
    \/ LogStderrLine
    \/ StderrClosed

NodeNext ==
    \/ ProcBeginWrite
    \/ ProcCompleteWrite
    \/ ProcExit
    \/ ProcTerminated
    \/ log_output

-----------------------------------------------------------------------------
(* task_manager.py: MinecraftTaskManager, TaskEnvironment, run_hierarchical_agent *)

\* the observation_space shape of each task in task_spaces
task_spaces ==
    [gather_wood |-> 10, mine_stone |-> 10, mine_iron |-> 12, gather_food |-> 15,
     combat |-> 20]

\* initialize_models() registers a model for every task of task_spaces
task_models ==
    DOMAIN task_spaces

task_goals ==
    [gather_wood |-> 10, mine_stone |-> 20]

HasAny(inventory, items) ==
    \E item \in items : item \in DOMAIN inventory /\ inventory[item] > 0

prioritize_tasks(e) ==
    IF e.health < 10 /\ Get(e.inventory, "cooked_beef") > 0 THEN "eat_food"
    ELSE IF e.hunger < 10 THEN "gather_food"
    ELSE IF e.time_of_day > 12000 /\ e.time_of_day < 24000 THEN "combat"
    ELSE IF ~HasAny(e.inventory, {"wooden_pickaxe", "wooden_axe", "wooden_sword"})
         THEN "gather_wood"
    ELSE IF Get(e.inventory, "wooden_pickaxe") > 0
            /\ ~HasAny(e.inventory, {"stone_pickaxe", "stone_axe", "stone_sword"})
         THEN "mine_stone"
    ELSE IF Get(e.inventory, "stone_pickaxe") > 0
            /\ ~HasAny(e.inventory, {"iron_pickaxe", "iron_axe", "iron_sword"})
         THEN "mine_iron"
    ELSE "gather_wood"

TmInventories ==
    {EmptyDict,
     Dict1("cooked_beef", MaxCount),
     Dict1("wooden_pickaxe", MaxCount),
     Dict2("wooden_pickaxe", 1, "stone_pickaxe", MaxCount),
     Dict2("stone_pickaxe", 1, "iron_pickaxe", MaxCount)}

TmStatuses ==
    {Status(Pos(0, 0, 0), h, f, inv, FALSE, FALSE, 0) :
        h \in {0, 5, 20}, f \in {5, 20}, inv \in TmInventories}

\* task_state as _update_task_state leaves it when no resource is near
TaskStateNotFound ==
    [found |-> 0, distance |-> 100]

\* the default branch returning the shape of the first task
TaskObsDefaultOfFirst(task_name) ==
    Zeros(task_spaces["gather_wood"])

\* np.zeros(self.observation_space.shape[0])
TaskObsDefault(task_name) ==
    Zeros(task_spaces[task_name])

\* _get_task_observation
_get_task_observation(task_name, e, task_state) ==
    LET base_obs == Js_get_observation(e)
    IN CASE task_name = "gather_wood" ->
               << base_obs[1], base_obs[2],
                  Min(Get(e.inventory, "wooden_log") * 640, 6400),
                  Flag(Get(e.inventory, "wooden_axe") > 0),
                  task_state.found * 6400,
                  Min(task_state.distance * 64, 6400),
                  Min((Get(e.inventory, "wooden_log") * 6400) \div task_goals.gather_wood,
                      6400),
                  0, 0, 0 >>
         [] task_name = "mine_stone" ->
               << base_obs[1], base_obs[2],
                  Min(Get(e.inventory, "cobblestone") * 320, 6400),
                  Flag(Get(e.inventory, "wooden_pickaxe") > 0),
                  task_state.found * 6400,
                  Min(task_state.distance * 64, 6400),
                  Min((Get(e.inventory, "cobblestone") * 6400) \div task_goals.mine_stone,
                      6400),
                  0, 0, 0 >>
         [] OTHER -> TaskObsDefault(task_name)

\* a manager after initialize_models(), about to train and then run
TmStart ==
    [pc |-> "train", current_task |-> "None", task_complete |-> FALSE,
     next_task |-> "None", set_ok |-> FALSE, executed |-> "None",
     obs_task |-> "None", obs |-> << >>]

\* base_env.reset() as the task environments and the run loop call it
TmBaseReset(e, poll) ==
    Js_update_state([e EXCEPT !.current_step = 0, !.health = 20, !.hunger = 20], poll)

\* train_task(task_name): learn() resets the task's environment and steps it
train_task ==
    /\ tm.pc = "train"
    /\ \E task_name \in task_models, poll \in TmStatuses \cup {Fail} :
       \E e1 \in {TmBaseReset(env, poll)} :
         /\ env' = e1
         /\ tm' = [tm EXCEPT !.obs_task = task_name,
                             !.obs = _get_task_observation(task_name, e1,
                                                           TaskStateNotFound)]
    /\ UNCHANGED <<pc, ret, trace, lastGood, main, node, conn>>

\* train_task(task_name): a resource near the bot makes _update_task_state
\* raise (it unpacks dicts into coordinates)
TrainRaised ==
    /\ tm.pc = "train"
    /\ \E task_name \in {"gather_wood", "mine_stone"} :
         tm' = [tm EXCEPT !.pc = "raised", !.obs_task = task_name, !.obs = << >>]
    /\ UNCHANGED <<env, pc, ret, trace, lastGood, main, node, conn>>

\* run_hierarchical_agent: task_manager.env.reset() opens an episode
TmEpisodeStarts ==
    /\ tm.pc \in {"train", "reset"}
    /\ \E poll \in TmStatuses \cup {Fail} :
         env' = TmBaseReset(env, poll)
    /\ tm' = [tm EXCEPT !.pc = "prioritize", !.obs_task = "None", !.obs = << >>]
    /\ UNCHANGED <<pc, ret, trace, lastGood, main, node, conn>>

TmInit ==
    /\ tm = TmStart
    /\ env = JsInit

\* next_task = task_manager.prioritize_tasks()
TmPrioritize ==
    /\ tm.pc = "prioritize"
    /\ tm' = [tm EXCEPT !.pc = "set", !.next_task = prioritize_tasks(env),
                        !.executed = "None", !.obs_task = "None", !.obs = << >>]
    /\ UNCHANGED env
    /\ UNCHANGED <<pc, ret, trace, lastGood, main, node, conn>>

\* task_manager.set_current_task(next_task); its result is not looked at
set_current_task ==
    /\ tm.pc = "set"
    /\ tm' = IF tm.next_task \notin task_models
             THEN [tm EXCEPT !.pc = "execute", !.set_ok = FALSE]
             ELSE [tm EXCEPT !.pc = "execute", !.set_ok = TRUE,
                             !.current_task = tm.next_task, !.task_complete = FALSE]
    /\ UNCHANGED env
    /\ UNCHANGED <<pc, ret, trace, lastGood, main, node, conn>>

\* execute_current_task() with no current task: return False
ExecuteNothing ==
    /\ tm.pc = "execute" /\ tm.current_task = "None"
    /\ tm' = [tm EXCEPT !.pc = "check"]
    /\ UNCHANGED env
    /\ UNCHANGED <<pc, ret, trace, lastGood, main, node, conn>>

\* execute_current_task(): the task environment is reset and stepped; a
\* resource near the bot makes _update_task_state raise (it unpacks dicts)
ExecuteRaised ==
    /\ tm.pc = "execute" /\ tm.current_task \in {"gather_wood", "mine_stone"}
    /\ tm' = [tm EXCEPT !.pc = "raised", !.executed = tm.current_task]
    /\ UNCHANGED env
    /\ UNCHANGED <<pc, ret, trace, lastGood, main, node, conn>>

\* execute_current_task(): the task environment is reset and stepped
execute_current_task ==
    /\ tm.pc = "execute" /\ tm.current_task # "None"
    /\ \E poll \in TmStatuses \cup {Fail}, done \in BOOLEAN :
       \E e1 \in {TmBaseReset(env, poll)} :
         /\ env' = e1
         /\ tm' = [tm EXCEPT !.pc = "check", !.executed = tm.current_task,
                             !.task_complete = (@ \/ done),
                             !.obs_task = tm.current_task,
                             !.obs = _get_task_observation(tm.current_task, e1,
                                                           TaskStateNotFound)]
    /\ UNCHANGED <<pc, ret, trace, lastGood, main, node, conn>>

\* if task_manager.env.health <= 0: break, on to the next episode
TmEpisodeEnds ==
    /\ tm.pc = "check" /\ env.health <= 0
    /\ tm' = [tm EXCEPT !.pc = "reset"]
    /\ UNCHANGED <<env, pc, ret, trace, lastGood, main, node, conn>>

\* otherwise the loop goes round
TmNextStep ==
    /\ tm.pc = "check" /\ env.health > 0
    /\ tm' = [tm EXCEPT !.pc = "prioritize"]
    /\ UNCHANGED env
    /\ UNCHANGED <<pc, ret, trace, lastGood, main, node, conn>>

TmNext ==
    \/ train_task
    \/ TrainRaised
    \/ TmEpisodeStarts
    \/ TmPrioritize
    \/ set_current_task
    \/ ExecuteNothing
    \/ ExecuteRaised
    \/ execute_current_task
    \/ TmEpisodeEnds
    \/ TmNextStep

-----------------------------------------------------------------------------
(* minecraft_env_js.py, mining_bot.py: connect() *)

\* the number of /status polls connect() allows itself
max_attempts ==
    40

\* a /status body of a bridge that is up
ConnJson(connected, inv) ==
    [connected |-> connected, inventory |-> inv, position |-> Pos(1, 0, 0)]

\* a /status body without the key 'connected'
ConnNoKey ==
    [position |-> Pos(1, 0, 0)]

\* what GET /status can do during connect(): raise, answer another code than
\* 200, or answer 200 with a JSON object
ConnPolls ==
    {Fail, Resp(500, EmptyDict), Resp(200, EmptyDict), Resp(200, ConnNoKey)}
    \cup {Resp(200, ConnJson(c, inv)) :
             c \in BOOLEAN, inv \in {EmptyDict, Dict1("oak_log", 1)}}

\* what _get_status() returns: the JSON object of a 200 answer, else None
Conn_get_status(poll) ==
    IF poll.ok /\ poll.code = 200 THEN poll.result ELSE None

\* status.get('connected', False)
GetConnected(status) ==
    "connected" \in DOMAIN status /\ status.connected

\* the test 'status and status.get('connected', False)'
ConnReported(status) ==
    status # None /\ status # EmptyDict /\ GetConnected(status)

\* MiningBot._get_status() copies inventory and position of a connected answer;
\* MinecraftJSEnv._get_status() stores nothing
ConnStatusStored(c, status) ==
    IF c.cls = "Bot" /\ status # None /\ GetConnected(status)
    THEN [c EXCEPT !.inventory = Get(status, "inventory"),
                   !.position = status.position]
    ELSE c

\* the commands MiningBot.connect() runs once connected; run_command() catches
\* request exceptions and its result is not used
ConnCommands(cls) ==
    IF cls = "Bot"
    THEN <<"say I'm a mining bot! Watch me work!", "weather clear", "time set day">>
    ELSE << >>

\* 'for attempt in range(max_attempts)' taking one attempt too many
ConnAttemptsLeftInclusive(attempt) ==
    attempt <= max_attempts

\* 'for attempt in range(max_attempts)' has another iteration
ConnAttemptsLeft(attempt) ==
    attempt < max_attempts

\* the object when its constructor calls connect(); attempt counts the polls
\* made, reports the polls that reported connected (history)
ConnStart(cls) ==
    [cls |-> cls, pc |-> "start", post |-> "none", attempt |-> 0, last |-> Fail,
     reports |-> 0, result |-> "none", connected |-> FALSE,
     inventory |-> EmptyDict, position |-> Pos(0, 0, 0), commands |-> << >>]

ConnInit ==
    \E cls \in {"Js", "Bot"} : conn = ConnStart(cls)

\* POST /connect answers 200
ConnectPosted ==
    /\ conn.pc = "start"
    /\ conn' = [conn EXCEPT !.pc = "loop", !.post = "200"]
    /\ UNCHANGED <<envVars, main, node, tm>>

\* POST /connect answers another status code
ConnectRejected ==
    /\ conn.pc = "start"
    /\ conn' = [conn EXCEPT !.pc = "returned", !.post = "rejected",
                            !.result = "False"]
    /\ UNCHANGED <<envVars, main, node, tm>>

\* POST /connect raises a RequestException
ConnectRaised ==
    /\ conn.pc = "start"
    /\ conn' = [conn EXCEPT !.pc = "returned", !.post = "raised",
                            !.result = "False"]
    /\ UNCHANGED <<envVars, main, node, tm>>

\* an iteration whose poll reports connected: connect() returns True
ConnectPollConnected ==
    /\ conn.pc = "loop" /\ ConnAttemptsLeft(conn.attempt)
    /\ \E poll \in ConnPolls :
       \E status \in {Conn_get_status(poll)} :
         /\ ConnReported(status)
         /\ conn' = [ConnStatusStored(conn, status) EXCEPT
                        !.attempt = @ + 1, !.last = poll, !.reports = @ + 1,
                        !.connected = (conn.cls = "Bot"),
                        !.inventory = IF conn.cls = "Bot"
                                      THEN Get(status, "inventory") ELSE @,
                        !.position = IF conn.cls = "Bot" THEN status.position ELSE @,
                        !.commands = ConnCommands(conn.cls),
                        !.pc = "returned", !.result = "True"]
    /\ UNCHANGED <<envVars, main, node, tm>>

\* an iteration whose poll does not report connected: sleep and go on
ConnectPollWaiting ==
    /\ conn.pc = "loop" /\ ConnAttemptsLeft(conn.attempt)
    /\ \E poll \in ConnPolls :
       \E status \in {Conn_get_status(poll)} :
         /\ ~ConnReported(status)
         /\ conn' = [ConnStatusStored(conn, status) EXCEPT
                        !.attempt = @ + 1, !.last = poll]
    /\ UNCHANGED <<envVars, main, node, tm>>

\* the loop has run out: 'Timed out waiting for connection'
ConnectTimedOut ==
    /\ conn.pc = "loop" /\ ~ConnAttemptsLeft(conn.attempt)
    /\ conn' = [conn EXCEPT !.pc = "returned", !.result = "False"]
    /\ UNCHANGED <<envVars, main, node, tm>>

ConnNext ==
    \/ ConnectPosted
    \/ ConnectRejected
    \/ ConnectRaised
    \/ ConnectPollConnected
    \/ ConnectPollWaiting
    \/ ConnectTimedOut

-----------------------------------------------------------------------------
(* Specifications: one per program *)

EnvIdle ==
    /\ env = JsInit
    /\ pc = "idle"
    /\ ret = NoRet
    /\ trace = NoTrace
    /\ lastGood = Js_get_observation(JsInit)

MainIdle ==
    main = MainStart("train", TRUE, FALSE)

NodeIdle ==
    node = NodeStart

TmIdle ==
    tm = TmStart

ConnIdle ==
    conn = ConnStart("Js")

EnvSpecInit ==
    EnvInit /\ MainIdle /\ NodeIdle /\ TmIdle /\ ConnIdle

EnvSpec ==
    EnvSpecInit /\ [][EnvNext]_vars

MainSpecInit ==
    MainInit /\ EnvIdle /\ NodeIdle /\ TmIdle /\ ConnIdle

MainSpec ==
    MainSpecInit /\ [][MainNext]_vars

NodeSpecInit ==
    NodeInit /\ EnvIdle /\ MainIdle /\ TmIdle /\ ConnIdle

NodeSpec ==
    NodeSpecInit /\ [][NodeNext]_vars

\* the scheduler runs the thread when it can log or move on, a write into a
\* pipe with room returns, and the subprocess ends once it has nothing to write
NodeFairSpec ==
    /\ NodeSpec
    /\ WF_vars(log_output)
    /\ WF_vars(ProcCompleteWrite)
    /\ WF_vars(ProcExit)

TmSpecInit ==
    TmInit /\ pc = "idle" /\ ret = NoRet /\ trace = NoTrace
    /\ lastGood = Js_get_observation(JsInit) /\ MainIdle /\ NodeIdle /\ ConnIdle

TmSpec ==
    TmSpecInit /\ [][TmNext]_vars

ConnSpecInit ==
    ConnInit /\ EnvIdle /\ MainIdle /\ NodeIdle /\ TmIdle

ConnSpec ==
    ConnSpecInit /\ [][ConnNext]_vars

-----------------------------------------------------------------------------
(* Properties of the three environment classes *)

\* the shape of the declared observation_space
EnhObsShape ==
    16

McObsShape ==
    15

JsObsShape ==
    20

ObsShape(cls) ==
    CASE cls = "Enhanced" -> EnhObsShape
      [] cls = "Mc" -> McObsShape
      [] cls = "Js" -> JsObsShape

Returned ==
    pc = "returned"

StepReturned ==
    Returned /\ ret.op = "step"

\* step() returned and its first GET /status had failed / had succeeded
FailedPollStep ==
    StepReturned /\ Len(trace.polls) > 0 /\ ~trace.polls[1].ok

GoodPollStep ==
    StepReturned /\ Len(trace.polls) > 0 /\ trace.polls[1].ok

\* C1: every observation reset() or step() returns has as many entries as the
\* class's observation_space declares (16, 15, 20)
C1_ObsLength ==
    Returned => Len(ret.obs) = ObsShape(env.cls)

\* a step of EnhancedMinecraftEnv, late in an episode, whose poll failed
C1_Witness ==
    /\ FailedPollStep /\ env.cls = "Enhanced" /\ env.step_count = max_episode_steps
    /\ Len(ret.obs) = 16

\* C2 as stated: in all three classes a step whose poll failed returns the
\* observation of the last successful poll (the initial one if there was none)
C2_StaleInAllClasses ==
    FailedPollStep => ret.obs = lastGood

\* the positions GET /blocks reports, where move_to_block teleports the bot
BlockPositions ==
    UNION {UNION {blocks[t] : t \in DOMAIN blocks} : blocks \in JsBlocks}

\* C2 as amended: a step whose poll failed returns, in EnhancedMinecraftEnv, the
\* observation of the last successful poll (zeros if none); in MinecraftEnv,
\* the all-zero vector; in MinecraftJSEnv, the vector of its cached fields:
\* inventory entries of the last successful poll, health and hunger of that
\* poll or the 20 reset() wrote since, position of that poll or of the block
\* move_to_block teleported to since
C2_StaleOrDefault ==
    FailedPollStep =>
        CASE env.cls = "Enhanced" -> ret.obs = lastGood
          [] env.cls = "Mc" -> ret.obs = Zeros(15)
          [] env.cls = "Js" ->
                /\ \A i \in 6..20 : ret.obs[i] = lastGood[i]
                /\ ret.obs[1] \in {lastGood[1], 20 * 320}
                /\ ret.obs[2] \in {lastGood[2], 20 * 320}
                /\ \/ SubSeq(ret.obs, 3, 5) = SubSeq(lastGood, 3, 5)
                   \/ \E p \in BlockPositions :
                         SubSeq(ret.obs, 3, 5)
                            = <<(p.x + 100) * 32, p.y * 25, (p.z + 100) * 32>>

\* EnhancedMinecraftEnv returns a stale observation that is not the default
C2_Witness ==
    /\ FailedPollStep /\ env.cls = "Enhanced"
    /\ ret.obs = lastGood /\ lastGood # Zeros(16)

\* the requests of the last call that went to an action endpoint
ActionReqs ==
    {i \in 1..Len(trace.reqs) : trace.reqs[i].endpoint # "/status"}

\* C5 as stated: a step() sends at most one request to an action endpoint
C5_OneActionRequest ==
    StepReturned => Cardinality(ActionReqs) <= 1

\* C5 as amended: a step() sends at most one request to an action endpoint,
\* except a MinecraftJSEnv step(6) whose POST /mine did not report "mined":
\* that step also sends GET /blocks and then at most one POST /command
C5_OneActionRequestButMine ==
    StepReturned =>
        \/ Cardinality(ActionReqs) <= 1
        \/ /\ env.cls = "Js" /\ trace.action = 6
           /\ trace.reqs[1] = Req("POST", "/mine", NoBody)
           /\ trace.reqs[2] = BlocksReq
           /\ ActionReqs \subseteq 1..3
           /\ 3 \in ActionReqs =>
                 trace.reqs[3].method = "POST" /\ trace.reqs[3].endpoint = "/command"

\* a mine that failed, looked for blocks and teleported
C5_Witness ==
    /\ StepReturned /\ env.cls = "Js" /\ trace.action = 6
    /\ Cardinality(ActionReqs) = 3

MoveReqs ==
    {i \in 1..Len(trace.reqs) : trace.reqs[i].endpoint = "/move"}

\* C6: step(a) for a in 0..3 sends exactly one POST /move, with body
\* {direction: forward|backward|left|right, distance: 1} for a = 0|1|2|3, and
\* no other action posts to /move
C6_MoveRequests ==
    StepReturned =>
        IF trace.action \in 0..3
        THEN /\ Cardinality(MoveReqs) = 1
             /\ \A i \in MoveReqs :
                   /\ trace.reqs[i].method = "POST"
                   /\ trace.reqs[i].body =
                         [direction |-> CASE trace.action = 0 -> "forward"
                                          [] trace.action = 1 -> "backward"
                                          [] trace.action = 2 -> "left"
                                          [] trace.action = 3 -> "right",
                          distance |-> 1]
        ELSE MoveReqs = {}

\* EnhancedMinecraftEnv moved right
C6_Witness ==
    /\ StepReturned /\ env.cls = "Enhanced" /\ trace.action = 3
    /\ trace.reqs[1] = Req("POST", "/move", [direction |-> "right", distance |-> 1])

\* the value of an item in item_values
ItemValueOf(item) ==
    LET i == CHOOSE k \in 1..Len(item_values) : item_values[k][1] = item
    IN item_values[i][2]

ItemNames ==
    {item_values[k][1] : k \in 1..Len(item_values)}

RECURSIVE SumGains(_, _, _)
SumGains(items, prev, curr) ==
    IF items = {} THEN 0
    ELSE LET item == CHOOSE x \in items : TRUE
         IN Max(0, Get(curr, item) - Get(prev, item)) * ItemValueOf(item)
            + SumGains(items \ {item}, prev, curr)

\* the inventory with every count that went down put back to what it was
Undecreased(prev, curr) ==
    [item \in DOMAIN curr \cup {i \in DOMAIN prev : Get(curr, i) < prev[i]} |->
        Max(Get(curr, item), Get(prev, item))]

\* a step of EnhancedMinecraftEnv that computed a reward
EnhRewarded ==
    StepReturned /\ env.cls = "Enhanced" /\ ret.ok

ObsOf(cls, status) ==
    CASE cls = "Enhanced" -> EnhObsOf(status)
      [] cls = "Mc" -> McObsOf(status)
      [] cls = "Js" -> JsObsOf(status)

-----------------------------------------------------------------------------
(* Properties of main.py *)

Logged(i) ==
    \E k \in 1..Len(node.logged) : node.logged[k].line = i

\* C3: every line the subprocess writes to stdout or stderr is eventually
\* forwarded to the logger by the thread
C3_EveryLineForwarded ==
    \A i \in 1..MaxLines : (node.written >= i) ~> Logged(i)

\* C9: once main() has started the bot server, terminate() has been called on
\* it by the time the program has exited, whichever way main() ended; with
\* --skip-node nothing is spawned and nothing terminated
C9_TerminatedBeforeExit ==
    /\ (main.pc = "exited" /\ main.spawned) => main.terminate_calls >= 1
    /\ main.skip_node => (~main.spawned /\ main.terminate_calls = 0)


-----------------------------------------------------------------------------
(* Properties of task_manager.py *)

\* C4: the task prioritize_tasks() returns is registered, so set_current_task
\* succeeds and the task then executed is the one that was prioritized
C4_PrioritizedTaskRuns ==
    /\ tm.pc = "set" => tm.next_task \in task_models
    /\ tm.pc = "check" => (tm.set_ok /\ tm.executed = tm.next_task)

\* C10: _get_task_observation returns, for every task of task_spaces, a
\* vector as long as the task's observation space declares
C10_TaskObsLength ==
    (tm.pc # "raised" /\ tm.obs_task # "None") =>
        Len(tm.obs) = (CASE tm.obs_task = "gather_wood" -> 10
                         [] tm.obs_task = "mine_stone" -> 10
                         [] tm.obs_task = "mine_iron" -> 12
                         [] tm.obs_task = "gather_food" -> 15
                         [] tm.obs_task = "combat" -> 20)

\* the combat task's environment was reset and observed
C10_Witness ==
    /\ tm.pc = "train" /\ tm.obs_task = "combat" /\ Len(tm.obs) = 20

-----------------------------------------------------------------------------
(* Properties of EnhancedMinecraftEnv episodes *)

\* a call of EnhancedMinecraftEnv has just returned
EnhReturned ==
    Returned /\ env.cls = "Enhanced"

\* C11: every step() call that brings step_count to at least
\* max_episode_steps returns truncated = True, so that an episode of the
\* evaluation loop ends within max_episode_steps steps
C11_TruncatedAtBudget ==
    (EnhReturned /\ ret.op = "step" /\ env.step_count >= max_episode_steps)
        => ret.truncated

\* C12: when reset() has returned, whether or not POST /reset went through,
\* step_count is 0
C12_ResetZeroesStepCount ==
    (EnhReturned /\ ret.op = "reset") => env.step_count = 0

\* C13: a reset() whose POST /reset raised returns the all-zero observation,
\* whatever steps were taken before
C13_FailedResetReturnsZeros ==
    (EnhReturned /\ ret.op = "reset" /\ ~ret.ok) => ret.obs = Zeros(16)


\* some crafted item's count is higher than that same item's previous count
CraftedItemIncreased(prev, curr) ==
    \E item \in CraftedItems : Get(curr, item) > Get(prev, item)

\* C14: the crafting bonus of 2.0 is part of a step's reward if and only if
\* the action is 7 and the count of one of wooden_pickaxe, stone_pickaxe,
\* crafting_table, stick, oak_planks is higher than it was at the previous step
C14_CraftBonusIffCrafted ==
    EnhRewarded =>
        (ret.parts.craft = 200
            <=> (trace.action = 7
                 /\ CraftedItemIncreased(trace.was.last_inventory, env.last_inventory)))


\* C15: within one episode the wooden pickaxe milestone bonus is awarded at
\* most once, and only on a step where the wooden_pickaxe count goes from 0
\* to a positive number; likewise the stone pickaxe milestone
C15_MilestoneOnce ==
    /\ env.cls = "Enhanced" => (env.awards.wood <= 1 /\ env.awards.stone <= 1)
    /\ EnhRewarded =>
          /\ ret.parts.wood > 0 =>
                /\ Get(trace.was.last_inventory, "wooden_pickaxe") = 0
                /\ Get(env.last_inventory, "wooden_pickaxe") > 0
          /\ ret.parts.stone > 0 =>
                /\ Get(trace.was.last_inventory, "stone_pickaxe") = 0
                /\ Get(env.last_inventory, "stone_pickaxe") > 0

-----------------------------------------------------------------------------
(* Properties of MinecraftEnv rewards and MinecraftJSEnv observations *)

McStepReturned ==
    Returned /\ env.cls = "Mc" /\ ret.op = "step"

\* C16: in MinecraftEnv the mining reward of 0.2 is part of a step's reward
\* exactly when the /status response of that step reports isMining, and the
\* collecting reward of 0.3 exactly when it reports isCollecting
C16_ActivityRewards ==
    (McStepReturned /\ trace.polls[1].ok) =>
        /\ ret.parts.mining = 20 <=> trace.polls[1].isMining
        /\ ret.parts.collecting = 30 <=> trace.polls[1].isCollecting

\* the value of the increases of valuable items from prev to curr
ValuableIncrease(prev, curr) ==
    ItemReward(prev, curr, valuable_items, Len(valuable_items))

\* C17: a MinecraftEnv step whose inventory poll shows more of a valuable item
\* than the inventory kept from the previous step or reset, with nothing
\* arriving between the step's two inventory polls (so that the next step
\* starts from the same inventory and cannot reward it), has the increase
\* times the item's value in its reward
C17_IncreaseRewarded ==
    [][(/\ env.cls = "Mc" /\ pc = "idle" /\ pc' = "returned" /\ ret'.op = "step"
        /\ trace'.polls[2].ok /\ trace'.polls[3] = trace'.polls[2]
        /\ ValuableIncrease(env.previous_inventory, trace'.polls[2].inventory) > 0)
       => ret'.parts.items
            = ValuableIncrease(env.previous_inventory, trace'.polls[2].inventory)]_vars

JsReturned ==
    Returned /\ env.cls = "Js"

\* C18: every entry of an observation returned by MinecraftJSEnv.reset() or
\* step() lies in [0, 1] (0..6400 in units of 1/6400)
C18_ObsInUnitBox ==
    JsReturned => \A i \in 1..Len(ret.obs) : ret.obs[i] >= 0 /\ ret.obs[i] <= 6400

-----------------------------------------------------------------------------
(* Properties of connect() *)

\* C19: connect() polls /status at most 40 times after POST /connect answered
\* 200; it returns True at the first poll that reports connected, returns
\* False after exactly 40 polls when none does, and returns False without any
\* poll when the POST answers another code or raises a request exception
C19_ConnectPolls ==
    /\ conn.attempt <= max_attempts
    /\ conn.attempt > 0 => conn.post = "200"
    /\ conn.reports > 0 =>
          /\ conn.reports = 1
          /\ conn.result = "True"
          /\ ConnReported(Conn_get_status(conn.last))
    /\ conn.result = "True" => conn.reports = 1
    /\ (conn.result = "False" /\ conn.post = "200") =>
          (conn.attempt = max_attempts /\ conn.reports = 0)
    /\ conn.post \in {"rejected", "raised"} =>
          (conn.attempt = 0 /\ conn.result = "False")
    /\ conn.pc = "returned" <=> conn.result # "none"

\* connect() has given up after the last allowed poll
C19_Witness ==
    /\ conn.cls = "Bot" /\ conn.result = "False" /\ conn.post = "200"
    /\ conn.attempt = max_attempts

=============================================================================
